---- MODULE Spec2Model ----
(***************************************************************************)
(* chunk_distribution.go: main resolves the current user, walkDir lists    *)
(* every file below the home directory, reportSizes accounts the chunks    *)
(* each file would be split into and prints the totals and a histogram.    *)
(*                                                                         *)
(* Numbers.  Sizes and counters are Go int64; every value of this model    *)
(* stays far below 2^31, so no wrap-around is represented.  For            *)
(* 0 <= size < 2^53 the conversion float64(size) is exact and a division   *)
(* by float64(OneMb) or float64(OneGb) (powers of two) is exact too, so    *)
(* math.Ceil(float64(size)/float64(OneMb)) is the ceiling of the exact     *)
(* quotient, and the float64 running sums of size/OneGb are exact          *)
(* multiples of 1/OneGb.  Sizes of 2^53 bytes and more are outside the     *)
(* model.  Go's integer / and % truncate toward zero; all operands here    *)
(* are non-negative, where \div and % agree with them.                     *)
(***************************************************************************)
EXTENDS Integers, Sequences, FiniteSets, TLC

\* ------------------------------------------------------------------ bounds
\* Largest number of directory entries (root included) of a file system.
MaxNodes == 4
\* Largest number of whole megabytes in the sizes of the one-file systems.
MaxMb == 3

\* --------------------------------------------------------------- constants
OneKb == 1024
OneMb == 1024 * 1024
OneGb == 1024 * 1024 * 1024

\* The keys the histogram literal of reportSizes starts with.
InitialKeys == {0, 100, 200, 300, 400, 500, 600, 700, 800, 900, 1000}

\* ------------------------------------------------------------ file systems
\* A file system is a tree of entries 1..n.  Entry 1 is u.HomeDir.  An
\* entry's number stands for its name: ioutil.ReadDir returns a directory's
\* entries sorted by name, here by number.  unreadable holds the
\* directories for which ioutil.ReadDir returns an error.
Nodes(n) == 1..n
HomeDir == 1

\* File sizes used in the trees: both sides of every threshold of
\* reportSizes, a remainder of 1000 KB and an exact multiple of 1 MB.
CoreSizes ==
    { 0, 3 * OneKb - 1, 3 * OneKb, 300 * OneKb, OneMb, OneMb + 1,
      OneMb + 1000 * OneKb, 2 * OneMb }

\* Remainders below 1 MB: every 50 KB step, exact, one byte and one byte
\* short of a KB above it, and the 3 KB threshold.
Remainders ==
    { k * 50 * OneKb + e : k \in 0..20, e \in {0, 1, OneKb - 1} }
        \cup { 3 * OneKb - 1, 3 * OneKb, OneMb - 1 }

\* Sizes of the single file of a flat home directory.
WideSizes == { q * OneMb + r : q \in 0..MaxMb, r \in Remainders }

\* fs is a tree of at most MaxNodes entries with files of the core sizes.
IsTree(f) ==
    \E n \in 1..MaxNodes :
      \E d \in { e \in [ Nodes(n) -> BOOLEAN ] : e[HomeDir] } :
        \E p \in { q \in [ 2..n -> Nodes(n) ] :
                     \A k \in 2..n : q[k] < k /\ d[q[k]] } :
          \E u \in SUBSET { k \in Nodes(n) : d[k] } :
            \E s \in [ { k \in Nodes(n) : ~d[k] } -> CoreSizes ] :
              f = [n |-> n, isDir |-> d, parent |-> p, unreadable |-> u,
                   size |-> s]

\* fs is a readable home directory holding one file of a wide size.
IsFlatOneFile(f) ==
    \E s \in WideSizes :
      f = [n |-> 2, isDir |-> (1 :> TRUE @@ 2 :> FALSE), parent |-> (2 :> 1),
           unreadable |-> {}, size |-> (2 :> s)]

VARIABLES
    fs,              \* the file system below u.HomeDir
    pc,              \* position of main
    stdout,          \* the lines printed so far
    files,           \* reportSizes: the files returned by walkDir
    i,               \* reportSizes: files[1..i] have been through the loop
    gt, lt,          \* files larger / not larger than 1 MB
    totalChunks, largeChunks, smallChunks,
    largeGigabytes,  \* in units of 1/OneGb GB, that is, bytes
    smallGigabytes,  \* in units of 1/OneGb GB, that is, bytes
    histogram

vars == << fs, pc, stdout, files, i, gt, lt, totalChunks, largeChunks,
           smallChunks, largeGigabytes, smallGigabytes, histogram >>

\* file.IsDir(), file.Size()
IsDir(file) == fs.isDir[file]
Size(file) == fs.size[file]

\* ioutil.ReadDir(dirname): the entries of the directory in name order; on
\* an error the returned list is nil.
RECURSIVE SortedSeq(_)
SortedSeq(S) ==
    IF S = {} THEN << >>
    ELSE LET m == CHOOSE x \in S : \A y \in S : x <= y
         IN << m >> \o SortedSeq(S \ {m})

ReadDir(dirname) ==
    IF dirname \in fs.unreadable THEN << >>
    ELSE SortedSeq({ k \in Nodes(fs.n) : k > 1 /\ fs.parent[k] = dirname })

\* Variant of walkEntries: the files of a subdirectory replace the slice
\* built so far (allFiles = subdirFiles) instead of being appended to it.
RECURSIVE walkEntriesOverwriting(_, _)
walkEntriesOverwriting(entries, allFiles) ==
    IF entries = << >> THEN allFiles
    ELSE LET file == Head(entries)
         IN walkEntriesOverwriting(
                Tail(entries),
                IF IsDir(file)
                THEN walkEntriesOverwriting(ReadDir(file), << >>)
                ELSE Append(allFiles, file))

\* walkDir(dirname): all files of the directory, those of its
\* subdirectories included.  walkEntries is its for loop over the entries
\* that are left, allFiles being the slice built so far; path.Join(dirname,
\* file.Name()) is the entry itself.
RECURSIVE walkDir(_), walkEntries(_, _)
walkEntries(entries, allFiles) ==
    IF entries = << >> THEN allFiles
    ELSE LET file == Head(entries)
         IN walkEntries(Tail(entries),
                        IF IsDir(file)
                        THEN allFiles \o walkDir(file)
                        ELSE Append(allFiles, file))

walkDir(dirname) == walkEntries(ReadDir(dirname), << >>)

\* ------------------------------------------------------------- reportSizes
\* math.Ceil of the exact quotient num/den, for num >= 0 and den > 0.
MathCeil(num, den) ==
    IF num % den = 0 THEN num \div den ELSE num \div den + 1

\* Variant of FileChunks: integer division plus one instead of the ceiling.
FileChunksTruncPlusOne(size) == size \div OneMb + 1

\* fileChunks := int64(math.Ceil(float64(size) / float64(OneMb)))
FileChunks(size) == MathCeil(size, OneMb)

\* Variant of HistogramKey: the multiplication by 100 is left out.
HistogramKeyUnscaled(size) == size \div 100

\* key := (size / 100) * 100
HistogramKey(size) == (size \div 100) * 100

\* Variant of addToHistogram: the entry is set to count, not increased by it.
addToHistogramOverwriting(t, size, count) ==
    LET key == HistogramKey(size)
        exists == key \in DOMAIN t.histogram
        h == IF exists THEN t.histogram ELSE t.histogram @@ (key :> 0)
        out == IF exists THEN t.stdout
               ELSE Append(t.stdout, << "Missing key in histogram", key >>)
    IN [t EXCEPT !.histogram = [h EXCEPT ![key] = count],
                 !.stdout = out]

\* addToHistogram(histogram, size, count), on the locals t of reportSizes:
\* a key the map lacks is reported on stdout and created, then count is
\* added to the key's entry.
addToHistogram(t, size, count) ==
    LET key == HistogramKey(size)
        exists == key \in DOMAIN t.histogram
        h == IF exists THEN t.histogram ELSE t.histogram @@ (key :> 0)
        out == IF exists THEN t.stdout
               ELSE Append(t.stdout, << "Missing key in histogram", key >>)
    IN [t EXCEPT !.histogram = [h EXCEPT ![key] = h[key] + count],
                 !.stdout = out]

\* The locals of reportSizes as it enters its loop.
InitialHistogram == [k \in InitialKeys |-> 0]

InitLocals(out) ==
    [gt |-> 0, lt |-> 0, totalChunks |-> 0, largeChunks |-> 0,
     smallChunks |-> 0, largeGigabytes |-> 0, smallGigabytes |-> 0,
     histogram |-> InitialHistogram, stdout |-> out]

\* Variant of LargeFile: the datamap is not entered into the histogram.
LargeFileNoDatamapEntry(t, size) ==
    LET fileChunks == FileChunks(size)
        t1 == [t EXCEPT !.gt = @ + 1,
                        !.largeGigabytes = @ + size,
                        !.totalChunks = @ + fileChunks + 1,
                        !.largeChunks = @ + fileChunks - 1,
                        !.smallChunks = @ + 2]
        t2 == addToHistogram(t1, 1024, fileChunks - 1)
    IN addToHistogram(t2, (size % OneMb) \div OneKb, 1)

\* Variant of LargeFile: the last chunk is entered with the whole file
\* size (the % OneMb is left out).
LargeFileLastChunkWhole(t, size) ==
    LET fileChunks == FileChunks(size)
        t1 == [t EXCEPT !.gt = @ + 1,
                        !.largeGigabytes = @ + size,
                        !.totalChunks = @ + fileChunks + 1,
                        !.largeChunks = @ + fileChunks - 1,
                        !.smallChunks = @ + 2]
        t2 == addToHistogram(t1, 1024, fileChunks - 1)
        t3 == addToHistogram(t2, size \div OneKb, 1)
    IN addToHistogram(t3, 1, 1)

\* Variant of LargeFile: the last chunk is entered a second time, as a
\* 1 MB chunk (fileChunks entries of 1024 instead of fileChunks - 1).
LargeFileAllChunksFull(t, size) ==
    LET fileChunks == FileChunks(size)
        t1 == [t EXCEPT !.gt = @ + 1,
                        !.largeGigabytes = @ + size,
                        !.totalChunks = @ + fileChunks + 1,
                        !.largeChunks = @ + fileChunks - 1,
                        !.smallChunks = @ + 2]
        t2 == addToHistogram(t1, 1024, fileChunks)
        t3 == addToHistogram(t2, (size % OneMb) \div OneKb, 1)
    IN addToHistogram(t3, 1, 1)

\* The loop body for size > OneMb.
LargeFile(t, size) ==
    LET fileChunks == FileChunks(size)
        t1 == [t EXCEPT !.gt = @ + 1,
                        !.largeGigabytes = @ + size,
                        !.totalChunks = @ + fileChunks + 1,
                        !.largeChunks = @ + fileChunks - 1,
                        !.smallChunks = @ + 2]
        t2 == addToHistogram(t1, 1024, fileChunks - 1)
        t3 == addToHistogram(t2, (size % OneMb) \div OneKb, 1)
    IN addToHistogram(t3, 1, 1)

\* Variant of SingleChunkFile: a data chunk and a datamap are counted.
SingleChunkFilePlusDatamap(t, size) ==
    LET t1 == [t EXCEPT !.totalChunks = @ + 2,
                        !.smallChunks = @ + 2]
        t2 == addToHistogram(t1, size \div OneKb, 1)
    IN addToHistogram(t2, 1, 1)

\* The loop body for size <= OneMb and size < 3*OneKb.
SingleChunkFile(t, size) ==
    LET t1 == [t EXCEPT !.totalChunks = @ + 1,
                        !.smallChunks = @ + 1]
    IN addToHistogram(t1, size \div OneKb, 1)

\* Variant of ThreeChunkFile: the three chunks are entered with the whole
\* file size (the / 3 is left out).
ThreeChunkFileWhole(t, size) ==
    LET t1 == [t EXCEPT !.totalChunks = @ + 4,
                        !.smallChunks = @ + 4]
        t2 == addToHistogram(t1, size \div OneKb, 3)
    IN addToHistogram(t2, 1, 1)

\* The loop body for 3*OneKb <= size <= OneMb.
ThreeChunkFile(t, size) ==
    LET t1 == [t EXCEPT !.totalChunks = @ + 4,
                        !.smallChunks = @ + 4]
        t2 == addToHistogram(t1, (size \div OneKb) \div 3, 3)
    IN addToHistogram(t2, 1, 1)

\* Variant of SmallFile: the file is not counted in lt.
SmallFileUncounted(t, size) ==
    LET t1 == [t EXCEPT !.smallGigabytes = @ + size]
    IN IF size < 3 * OneKb
       THEN SingleChunkFile(t1, size)
       ELSE ThreeChunkFile(t1, size)

\* The loop body for size <= OneMb.
SmallFile(t, size) ==
    LET t1 == [t EXCEPT !.lt = @ + 1,
                        !.smallGigabytes = @ + size]
    IN IF size < 3 * OneKb
       THEN SingleChunkFile(t1, size)
       ELSE ThreeChunkFile(t1, size)

\* One iteration of the loop of reportSizes.
ReportFile(t, size) ==
    IF size > OneMb THEN LargeFile(t, size) ELSE SmallFile(t, size)

\* reportHistogram(h): one row per key in ascending order, each the
\* arguments of its Printf (strconv.Itoa(sortedKey+100) kept as a number).
HistogramRow(h, sortedKey) ==
    LET row(spacing, upperRange) ==
            << "row", spacing, sortedKey, upperRange, h[sortedKey] >>
    IN IF sortedKey < 1
       THEN row("   ", << "-", sortedKey + 100, " KB" >>)
       ELSE IF sortedKey < 900
       THEN row(" ", << "-", sortedKey + 100, "   " >>)
       ELSE IF sortedKey < 999
       THEN row(" ", << "-", sortedKey + 100, "  " >>)
       ELSE row("", << "+      " >>)

reportHistogram(h) ==
    LET sortedKeys == SortedSeq(DOMAIN h)
    IN [k \in 1..Len(sortedKeys) |-> HistogramRow(h, sortedKeys[k])]

\* The locals of reportSizes in the current state.
Locals ==
    [gt |-> gt, lt |-> lt, totalChunks |-> totalChunks,
     largeChunks |-> largeChunks, smallChunks |-> smallChunks,
     largeGigabytes |-> largeGigabytes, smallGigabytes |-> smallGigabytes,
     histogram |-> histogram, stdout |-> stdout]

SetLocals(t) ==
    /\ gt' = t.gt
    /\ lt' = t.lt
    /\ totalChunks' = t.totalChunks
    /\ largeChunks' = t.largeChunks
    /\ smallChunks' = t.smallChunks
    /\ largeGigabytes' = t.largeGigabytes
    /\ smallGigabytes' = t.smallGigabytes
    /\ histogram' = t.histogram
    /\ stdout' = t.stdout

\* ------------------------------------------------------------------ system
Init ==
    /\ IsTree(fs) \/ IsFlatOneFile(fs)
    /\ pc = "main"
    /\ files = << >>
    /\ i = 0
    /\ gt = 0
    /\ lt = 0
    /\ totalChunks = 0
    /\ largeChunks = 0
    /\ smallChunks = 0
    /\ largeGigabytes = 0
    /\ smallGigabytes = 0
    /\ histogram = InitialHistogram
    /\ stdout = << >>

\* main: user.Current() fails; the error is printed and main returns.
MainUserError ==
    /\ pc = "main"
    /\ stdout' = << << "chunk_distribution v0.1.0" >>, << "err" >> >>
    /\ pc' = "exit"
    /\ UNCHANGED << fs, files, i, gt, lt, totalChunks, largeChunks,
                    smallChunks, largeGigabytes, smallGigabytes, histogram >>

\* main: user.Current() succeeds.
MainUserOk ==
    /\ pc = "main"
    /\ stdout' = << << "chunk_distribution v0.1.0" >>,
                    << "Gathering current user HomeDir stats" >> >>
    /\ pc' = "walk"
    /\ UNCHANGED << fs, files, i, gt, lt, totalChunks, largeChunks,
                    smallChunks, largeGigabytes, smallGigabytes, histogram >>

\* main: files := walkDir(u.HomeDir); reportSizes(files) is entered and its
\* locals are initialised.
MainWalkDir ==
    /\ pc = "walk"
    /\ files' = walkDir(HomeDir)
    /\ i' = 0
    /\ SetLocals(InitLocals(stdout))
    /\ pc' = "report"
    /\ UNCHANGED fs

\* reportSizes: one iteration of the loop over files.
ReportLoop ==
    /\ pc = "report"
    /\ i < Len(files)
    /\ SetLocals(ReportFile(Locals, Size(files[i + 1])))
    /\ i' = i + 1
    /\ UNCHANGED << fs, pc, files >>

\* reportSizes: the loop is over; the stats and the histogram are printed
\* and main returns.
ReportPrint ==
    /\ pc = "report"
    /\ i = Len(files)
    /\ stdout' = stdout \o
          << << "Total files:", Len(files) >>,
             << "Files larger than 1 MB:", gt, largeGigabytes >>,
             << "Files smaller than 1 MB:", lt, smallGigabytes >>,
             << "Total chunks:", totalChunks >>,
             << "Large chunks:", largeChunks >>,
             << "Small chunks:", smallChunks >>,
             << "\nChunk Size  Count" >> >>
          \o reportHistogram(histogram)
    /\ pc' = "done"
    /\ UNCHANGED << fs, files, i, gt, lt, totalChunks, largeChunks,
                    smallChunks, largeGigabytes, smallGigabytes, histogram >>

Next ==
    \/ MainUserError
    \/ MainUserOk
    \/ MainWalkDir
    \/ ReportLoop
    \/ ReportPrint

Spec == Init /\ [][Next]_vars

\* ------------------------------------------------------------- properties
\* The step that takes the next file through the loop of reportSizes, and
\* that file's size.
LoopStep == pc = "report" /\ i < Len(files) /\ i' = i + 1
StepSize == Size(files[i + 1])

\* The file that went through the loop last.
LastSize == Size(files[i])
InReport == pc \in {"report", "done"}

\* h with gain[k] more entries in every bucket k that gain names.
Gained(h, gain) ==
    [k \in DOMAIN h |-> h[k] + (IF k \in DOMAIN gain THEN gain[k] ELSE 0)]

\* The function that is n at key k and nothing elsewhere; the sum of two
\* such gains.
Entries(k, n) == k :> n
Plus(f, g) ==
    [k \in DOMAIN f \cup DOMAIN g |->
        (IF k \in DOMAIN f THEN f[k] ELSE 0)
        + (IF k \in DOMAIN g THEN g[k] ELSE 0)]

RECURSIVE SumOver(_, _)
SumOver(h, S) ==
    IF S = {} THEN 0
    ELSE LET k == CHOOSE x \in S : TRUE IN h[k] + SumOver(h, S \ {k})

\* C1: a file larger than 1 MB adds ceil(size/1MB) + 1 to the total chunk
\* count, ceil(size/1MB) - 1 to the large chunk count and 2 to the small
\* chunk count (n below is ceil(size/1MB): (n-1) MB < size <= n MB).
C1_LargeFileChunkCounts ==
    [][ (LoopStep /\ StepSize > OneMb) =>
          \E n \in 2..(MaxMb + 2) :
              /\ (n - 1) * OneMb < StepSize
              /\ StepSize <= n * OneMb
              /\ totalChunks' = totalChunks + n + 1
              /\ largeChunks' = largeChunks + n - 1
              /\ smallChunks' = smallChunks + 2 ]_vars

\* C1 witness: a file of 2 MB, 500 KB and a byte has gone through the loop.
C1_Witness ==
    /\ InReport /\ i = 1
    /\ LastSize = 2 * OneMb + 500 * OneKb + 1
    /\ totalChunks = 4 /\ largeChunks = 2 /\ smallChunks = 2

C3_ThreeChunks ==
    [][ (LoopStep /\ 3 * OneKb <= StepSize /\ StepSize <= OneMb) =>
          /\ lt' = lt + 1
          /\ gt' = gt
          /\ totalChunks' = totalChunks + 4
          /\ smallChunks' = smallChunks + 4
          /\ largeChunks' = largeChunks
          /\ histogram' =
               Gained(histogram,
                      Plus(Entries((((StepSize \div OneKb) \div 3) \div 100)
                                       * 100, 3),
                           Entries(0, 1))) ]_vars

\* C3 witness: a file of exactly 1 MB has gone through the loop; its three
\* chunks of 341 KB are in bucket 300.
C3_Witness ==
    /\ InReport /\ i = 1
    /\ LastSize = OneMb
    /\ lt = 1 /\ totalChunks = 4 /\ histogram[300] = 3 /\ histogram[0] = 1

\* C4: the keys of the histogram are always exactly 0, 100, ..., 1000 and
\* no "Missing key in histogram" line is ever printed.
C4_ClosedBuckets ==
    /\ DOMAIN histogram = { 100 * k : k \in 0..10 }
    /\ \A l \in 1..Len(stdout) : stdout[l][1] # "Missing key in histogram"

\* C4 witness: the report is out for files whose chunks reach the first
\* and the last bucket, a remainder chunk of 1000 KB among them.
C4_Witness ==
    /\ pc = "done"
    /\ \E k \in 1..Len(files) :
          Size(files[k]) > OneMb
          /\ Size(files[k]) % OneMb >= 1000 * OneKb
    /\ histogram[1000] >= 2 /\ histogram[0] >= 1

\* C5: the counts of all histogram buckets add up to totalChunks.
C5_HistogramSum == SumOver(histogram, DOMAIN histogram) = totalChunks

\* C5 witness: files of all three kinds have gone through the loop.
C5_Witness ==
    /\ pc = "done" /\ gt >= 1
    /\ \E k \in 1..Len(files) : Size(files[k]) < 3 * OneKb
    /\ \E k \in 1..Len(files) :
          3 * OneKb <= Size(files[k]) /\ Size(files[k]) <= OneMb
    /\ totalChunks >= 8

\* The sizes of the files reportSizes was given, in order.
FileSizes == [k \in 1..Len(files) |-> Size(files[k])]

\* The totals reportSizes accumulates over a list of sizes, from its
\* initial locals.
RECURSIVE Aggregate(_)
Aggregate(sizes) ==
    IF sizes = << >> THEN InitLocals(<< >>)
    ELSE ReportFile(Aggregate(SubSeq(sizes, 1, Len(sizes) - 1)),
                    sizes[Len(sizes)])

\* The members of sizes at the positions in S, in order.
RECURSIVE Pick(_, _)
Pick(sizes, S) ==
    IF S = {} THEN << >>
    ELSE LET m == CHOOSE x \in S : \A y \in S : x <= y
         IN << sizes[m] >> \o Pick(sizes, S \ {m})

\* The integer totals and the histogram of a and b added component-wise.
Merged(a, b) ==
    [gt |-> a.gt + b.gt, lt |-> a.lt + b.lt,
     totalChunks |-> a.totalChunks + b.totalChunks,
     largeChunks |-> a.largeChunks + b.largeChunks,
     smallChunks |-> a.smallChunks + b.smallChunks,
     histogram |-> Plus(a.histogram, b.histogram)]

Totals(t) ==
    [gt |-> t.gt, lt |-> t.lt, totalChunks |-> t.totalChunks,
     largeChunks |-> t.largeChunks, smallChunks |-> t.smallChunks,
     histogram |-> t.histogram]

Reorderings(n) ==
    { f \in [1..n -> 1..n] : \A a, b \in 1..n : a # b => f[a] # f[b] }

\* C6: when the loop is over, the integer totals and the histogram equal
\* the component-wise sum of the totals of any two sublists the file list
\* splits into, each aggregated from the initial state, and the totals of
\* any permutation of the list.
C6_SplitMergePermute ==
    pc = "done" =>
      /\ \A S \in SUBSET (1..Len(files)) :
            Totals(Locals) =
                Merged(Aggregate(Pick(FileSizes, S)),
                       Aggregate(Pick(FileSizes, (1..Len(files)) \ S)))
      /\ \A f \in Reorderings(Len(files)) :
            Totals(Locals) =
                Totals(Aggregate([k \in 1..Len(files) |-> FileSizes[f[k]]]))

\* C6 witness: the report is out for three files of three different kinds,
\* two of them sharing a bucket.
C6_Witness ==
    /\ pc = "done" /\ Len(files) = 3
    /\ gt = 1 /\ lt = 2
    /\ \E k \in 1..3 : FileSizes[k] < 3 * OneKb
    /\ \E k \in 1..3 : FileSizes[k] = OneMb
    /\ histogram[0] >= 4

\* The directories above entry k, from its parent up to the home
\* directory.
RECURSIVE Above(_)
Above(k) == IF k = HomeDir THEN {} ELSE {fs.parent[k]} \cup Above(fs.parent[k])

RegularFiles == { k \in Nodes(fs.n) : ~fs.isDir[k] }
Range(seq) == { seq[k] : k \in 1..Len(seq) }
NoDuplicates(seq) == \A a, b \in 1..Len(seq) : a # b => seq[a] # seq[b]
Printed(line) == \E l \in 1..Len(stdout) : stdout[l] = line

\* C7 as stated: the traversal returns every non-directory entry of every
\* readable directory below the root exactly once.  It is stated here
\* only for a home directory that can itself be listed.
C7_Original ==
    (InReport /\ HomeDir \notin fs.unreadable) =>
      /\ NoDuplicates(files)
      /\ Range(files) =
            { k \in RegularFiles : fs.parent[k] \notin fs.unreadable }

\* C7 amended: a directory that cannot be listed is treated as having no
\* entries; the traversal returns exactly once every non-directory entry of
\* every readable directory that is reached from the root through readable
\* directories only (the entries below an unlistable directory are not
\* visited, readable or not), and the run goes on to the report.
C7_ReachableFiles ==
    /\ pc # "exit" \/ files = << >>
    /\ InReport =>
         /\ NoDuplicates(files)
         /\ Range(files) =
               { k \in RegularFiles : Above(k) \cap fs.unreadable = {} }
    /\ pc = "done" => Printed(<< "Total files:", Len(files) >>)

\* C7 witness: the report is out although a directory with entries could
\* not be listed, and a file was found elsewhere.
C7_Witness ==
    /\ pc = "done"
    /\ \E d \in fs.unreadable : \E k \in RegularFiles : fs.parent[k] = d
    /\ files # << >>
    /\ Printed(<< "Total files:", 1 >>)

\* C8: a file larger than 1 MB adds ceil(size/1MB) - 1 entries to bucket
\* 1000, one entry to the bucket of its remainder size mod 1MB in KB and
\* one entry to bucket 0 (n below is ceil(size/1MB)); for an exact multiple
\* of 1 MB the remainder entry is a zero-byte chunk in bucket 0.
C8_LargeFileHistogram ==
    [][ (LoopStep /\ StepSize > OneMb) =>
          \E n \in 2..(MaxMb + 2) :
              /\ (n - 1) * OneMb < StepSize
              /\ StepSize <= n * OneMb
              /\ histogram' =
                   Gained(histogram,
                          Plus(Entries(1000, n - 1),
                               Plus(Entries((((StepSize % OneMb) \div OneKb)
                                                \div 100) * 100, 1),
                                    Entries(0, 1))))
              /\ (StepSize % OneMb = 0 =>
                    histogram'[0] = histogram[0] + 2) ]_vars

\* C8 witness: a file of exactly 2 MB has gone through the loop: 3 chunks,
\* 1 large in bucket 1000 and 2 small in bucket 0.
C8_Witness ==
    /\ InReport /\ i = 1
    /\ LastSize = 2 * OneMb
    /\ totalChunks = 3 /\ largeChunks = 1 /\ smallChunks = 2
    /\ histogram[1000] = 1 /\ histogram[0] = 2

\* The files gone through the loop that are larger than 1 MB and whose
\* last chunk, size mod 1MB, is 1000 KB or more.
LongTails ==
    { k \in 1..i : Size(files[k]) > OneMb
                   /\ Size(files[k]) % OneMb >= 1000 * OneKb }

\* C9 as stated: the count of bucket 1000 equals the large chunk count.
C9_Original == histogram[1000] = largeChunks

\* C9 amended: the count of bucket 1000 equals the large chunk count plus
\* the number of files larger than 1 MB whose last chunk (size mod 1 MB) is
\* 1000 KB or more: such a remainder chunk is classified small and binned
\* into bucket 1000; no other small chunk is.
C9_Bucket1000 == histogram[1000] = largeChunks + Cardinality(LongTails)

\* C9 witness: a file with a last chunk of 1000 KB and a file of 1 MB have
\* gone through the loop.
C9_Witness ==
    /\ InReport /\ i >= 2
    /\ LongTails # {}
    /\ \E k \in 1..i : Size(files[k]) = OneMb
    /\ histogram[1000] > largeChunks

\* C10: largeChunks + smallChunks = totalChunks, gt + lt is the number of
\* files gone through the loop, and no counter or bucket count is negative
\* or ever decreases.
C10_CountersConsistent ==
    /\ [](/\ largeChunks + smallChunks = totalChunks
          /\ gt + lt = i
          /\ \A c \in {gt, lt, totalChunks, largeChunks, smallChunks} : c >= 0
          /\ \A k \in DOMAIN histogram : histogram[k] >= 0)
    /\ [][ LoopStep =>
             /\ gt' >= gt /\ lt' >= lt
             /\ totalChunks' >= totalChunks
             /\ largeChunks' >= largeChunks
             /\ smallChunks' >= smallChunks
             /\ \A k \in DOMAIN histogram :
                   k \in DOMAIN histogram' /\ histogram'[k] >= histogram[k]
         ]_vars

\* C10 witness: a large and a small file have gone through the loop.
C10_Witness ==
    /\ InReport /\ i = 2
    /\ gt = 1 /\ lt = 1
    /\ largeChunks >= 1 /\ smallChunks >= 3

====
